---- MODULE Spec2Model ----
(***************************************************************************)
(* CampaignService (src/src/services/CampaignService.js): the promise and  *)
(* callback plumbing between the feathers store, the network accessor, the *)
(* chain client and the caller's callbacks.                                *)
(*                                                                         *)
(* Every promise the service creates or receives is a field of `promise`;  *)
(* every callback the service registers is one action, enabled once the    *)
(* promise it hangs on has settled and it has not run yet (`ran`).  Every  *)
(* call the service makes on a collaborator or on a caller's callback is   *)
(* appended to `log`, in the order the calls happen.                       *)
(*                                                                         *)
(* A caller's callback that throws matters where the service's own promise *)
(* chain receives the exception: afterMined (save, cancel) and onSuccess   *)
(* (getCampaigns) are called inside a .then that is followed by a .catch,  *)
(* and `throws` says what each of them throws.  What afterCreate throws is *)
(* received by no handler of the service and is not modelled.              *)
(*                                                                         *)
(* Three specifications: Spec (one call of save or cancel), SpecRead (one  *)
(* call of get or getCampaigns against any store contents) and SpecSub     *)
(* (one subscribeDonations subscription while the store changes).          *)
(***************************************************************************)
EXTENDS Integers, Sequences, FiniteSets, TLC

VARIABLES
  op,            \* the service method that was called ("idle" before the call)
  campaign,      \* save/cancel: the campaign argument
  throws,        \* what each caller callback throws when invoked (NoThrow: returns)
  txHash,        \* save/cancel: `let txHash`
  etherScanUrl,  \* save/cancel: `let etherScanUrl`
  promise,       \* state of every promise of the call
  ran,           \* the registered callbacks that have run
  createReq,     \* the data of the store create in flight
  patchReq,      \* the id and data of the store patch in flight
  campaigns,     \* the store's campaigns collection
  donations,     \* the store's donations collection
  args,          \* get/getCampaigns/subscribeDonations: the call's arguments
  resp,          \* the response of the find in flight
  outcome,       \* get: resolve/reject calls; list methods: onSuccess/onError calls
  subscription,  \* subscribeDonations: "none" | "open" | "closed"
  pending,       \* subscribeDonations: store events not yet pushed to the client
  emissions,     \* subscribeDonations: what the server pushed, in order
  delivered,     \* subscribeDonations: how many emissions reached the subscriber
  changes,       \* subscribeDonations: store changes made since the call
  log            \* calls made on collaborators and callbacks, in order

vars == <<op, campaign, throws, txHash, etherScanUrl, promise, ran, createReq,
          patchReq, campaigns, donations, args, resp, outcome, subscription,
          pending, emissions, delivered, changes, log>>

mutVars == <<campaign, throws, txHash, etherScanUrl, promise, ran, createReq, patchReq>>
readVars == <<args, resp, outcome>>
subVars == <<donations, subscription, pending, emissions, delivered, changes>>

-----------------------------------------------------------------------------
(* Values *)

Undefined == "#undefined"

\* Template-literal rendering of a value: `${undefined}` is "undefined".
Str(v) == IF v = Undefined THEN "undefined" ELSE v

\* JavaScript truthiness of a string-or-undefined value.
Truthy(v) == v # Undefined /\ v # ""

Hashes == {"0xH1", "0xH2"}
Etherscans == {"https://etherscan.io/", "https://rinkeby.etherscan.io/"}
CampaignIds == {"c1", "c2", "c3"}

ACTIVE == "Active"
CANCELED == "Canceled"
PENDING == "Pending"
Statuses == {ACTIVE, CANCELED, PENDING}

\* An error message is a sequence of words; <<>> is a missing or empty message.
Messages ==
  { <<>>,
    <<"unknown", "transaction">>,
    <<"Error:", "unknown", "transaction", "0xH1">>,
    <<"unknown", "account">>,
    <<"transaction", "unknown">>,
    <<"unknown">> }
Errors == [message : Messages]
AccountError == [message |-> <<"unknown", "account">>]
ListingError == [message |-> <<"Timeout">>]
StoreErrors == {ListingError, [message |-> <<>>]}
NoThrow == [message |-> <<"#returns">>]
NoError == [message |-> <<"#none">>]

\* String.prototype.includes on word sequences.
Includes(s, sub) ==
  \E i \in 0..(Len(s) - Len(sub)) : SubSeq(s, i + 1, i + Len(sub)) = sub

UNKNOWN_TRANSACTION == <<"unknown", "transaction">>

\* `${etherScanUrl}tx/${txHash}`
ExplorerLink(url, hash) == Str(url) \o "tx/" \o Str(hash)

-----------------------------------------------------------------------------
(* Promises and the log *)

PromiseNames == {"getNetwork", "getWeb3", "all", "outerThen", "chain", "chainThen",
                 "create", "patch", "find", "findThen"}
Unsettled == [state |-> "none", value |-> Undefined, err |-> NoError]
Pending == [state |-> "pending", value |-> Undefined, err |-> NoError]
Resolved(v) == [state |-> "resolved", value |-> v, err |-> NoError]
Rejected(e) == [state |-> "rejected", value |-> Undefined, err |-> e]

NoReq == [id |-> Undefined, data |-> [x \in {} |-> Undefined]]

Call(fn, a) == [fn |-> fn, args |-> a, err |-> NoError]
CallErr(fn, a, e) == [fn |-> fn, args |-> a, err |-> e]

Calls(fn) == SelectSeq(log, LAMBDA e : e.fn = fn)
Count(fn) == Len(Calls(fn))
Index(fn) == CHOOSE i \in 1..Len(log) : log[i].fn = fn /\ \A j \in 1..(i - 1) : log[j].fn # fn

-----------------------------------------------------------------------------
(* The store (feathers service 'campaigns') and the models' serialisation *)

StoredIds == {c._id : c \in campaigns}
Stored(id) == CHOOSE c \in campaigns : c._id = id

Max(S) == CHOOSE x \in S : \A y \in S : y <= x
Now == Max({0} \cup {c.createdAt : c \in campaigns}) + 1

\* patch(id, data): the record with the fields of data replaced.
Merge(rec, data) == [f \in DOMAIN rec |-> IF f \in DOMAIN data THEN data[f] ELSE rec[f]]
Patched(id, data) == (campaigns \ {Stored(id)}) \cup {Merge(Stored(id), data)}

\* create(data): a pending record (project id 0) under a fresh id.
Created(id, data) ==
  [_id |-> id, title |-> data.title, projectId |-> 0, status |-> PENDING,
   createdAt |-> Now, txHash |-> data.txHash, mined |-> FALSE]

\* campaign.toFeathers(txHash): the serialised campaign, with the hash when given.
toFeathers(c, hash) ==
  IF hash = Undefined THEN [title |-> c.title]
  ELSE [title |-> c.title, txHash |-> hash]

-----------------------------------------------------------------------------
(* Queries, as the store evaluates them *)

NoLimit == -1
NoSort == "none"
DESC == "createdAt:-1"
NoQuery == [filters |-> [f \in {} |-> Undefined], sort |-> NoSort, limit |-> NoLimit, skip |-> 0]

Eq(v) == [op |-> "eq", value |-> v]
Gt(v) == [op |-> "$gt", value |-> v]

Test(v, c) == IF c.op = "$gt" THEN v > c.value ELSE v = c.value
Matches(rec, filters) == \A f \in DOMAIN filters : Test(rec[f], filters[f])
Matching(coll, q) == {r \in coll : Matches(r, q.filters)}

Min(a, b) == IF a <= b THEN a ELSE b

\* The orders the store may return a set of records in: any order without $sort,
\* creation time descending (ties in any order) with $sort: { createdAt: -1 }.
Orderings(S, sort) ==
  {s \in [1..Cardinality(S) -> S] :
     /\ \A i, j \in DOMAIN s : i # j => s[i] # s[j]
     /\ sort = DESC => \A i, j \in DOMAIN s : i < j => s[i].createdAt >= s[j].createdAt}

\* $skip and $limit
Page(s, q) ==
  LET last == IF q.limit = NoLimit THEN Len(s) ELSE Min(Len(s), q.skip + q.limit)
  IN SubSeq(s, q.skip + 1, last)

\* find(query): { data, total }
Responses(coll, q) ==
  {[data |-> Page(s, q), total |-> Cardinality(Matching(coll, q))] :
     s \in Orderings(Matching(coll, q), q.sort)}

-----------------------------------------------------------------------------
(* save and cancel *)

SAVE_TITLE == "Something went wrong with the transaction. Is your wallet unlocked?"
CANCEL_TITLE == "Something went wrong with cancelling your campaign"
PATCH_TITLE == "Something went wrong with updating campaign"

Titles == {"T", "T2"}
CampaignArgs == [id : {Undefined, "c1", "c3"}, title : Titles]
ThrowChoices == {NoThrow, [message |-> UNKNOWN_TRANSACTION], AccountError}

\* Mutant of SuppressedError: the message is compared instead of searched.
SuppressedErrorExact(hash, err) ==
  /\ Truthy(hash)
  /\ err.message = UNKNOWN_TRANSACTION

\* Mutant of SuppressedError: the test for an observed hash is missing.
SuppressedErrorNoHash(hash, err) ==
  /\ err.message # <<>>
  /\ Includes(err.message, UNKNOWN_TRANSACTION)

\* if (txHash && err.message && err.message.includes('unknown transaction')) return;
SuppressedError(hash, err) ==
  /\ Truthy(hash)
  /\ err.message # <<>>
  /\ Includes(err.message, UNKNOWN_TRANSACTION)

\* What `afterMined(...)` leaves of the promise returned by the .then that calls it.
AfterCall(cb) == IF throws[cb] = NoThrow THEN Resolved(Undefined) ELSE Rejected(throws[cb])

\* The failure a .catch registered after a .then receives: the source's rejection,
\* or what the .then callback threw.
CaughtBy(source, then) ==
  IF promise[source].state = "rejected" THEN promise[source].err ELSE promise[then].err
Catches(source, then) ==
  promise[source].state = "rejected" \/ promise[then].state = "rejected"

\* save(campaign, from, afterCreate, afterMined)
Save(c, t) ==
  /\ op = "idle"
  /\ op' = "save"
  /\ campaign' = c
  /\ throws' = [throws EXCEPT !.afterMined = t]
  /\ IF Truthy(c.id)
       THEN /\ patchReq' = [id |-> c.id, data |-> toFeathers(c, Undefined)]
            /\ promise' = [promise EXCEPT !.patch = Pending]
            /\ log' = Append(log, Call("patch", <<c.id>>))
       ELSE /\ patchReq' = patchReq
            /\ promise' = [promise EXCEPT !.getNetwork = Pending]
            /\ log' = Append(log, Call("getNetwork", <<>>))
  /\ UNCHANGED <<txHash, etherScanUrl, ran, createReq, campaigns>>
  /\ UNCHANGED readVars /\ UNCHANGED subVars

\* Mutant of SavePatchThen: afterMined is handed an explorer link, as in the create branch.
SavePatchThenLink ==
  /\ op = "save"
  /\ promise.patch.state = "resolved"
  /\ "patchThen" \notin ran
  /\ ran' = ran \cup {"patchThen"}
  /\ log' = Append(log, Call("afterMined", <<ExplorerLink(etherScanUrl, txHash)>>))
  /\ UNCHANGED <<op, campaign, throws, txHash, etherScanUrl, promise, createReq, patchReq, campaigns>>
  /\ UNCHANGED readVars /\ UNCHANGED subVars

\* .then(() => afterMined()) of the update branch
SavePatchThen ==
  /\ op = "save"
  /\ promise.patch.state = "resolved"
  /\ "patchThen" \notin ran
  /\ ran' = ran \cup {"patchThen"}
  /\ log' = Append(log, Call("afterMined", <<>>))
  /\ UNCHANGED <<op, campaign, throws, txHash, etherScanUrl, promise, createReq, patchReq, campaigns>>
  /\ UNCHANGED readVars /\ UNCHANGED subVars

\* getNetwork().then(network => { ... newCampaign(...) ... })
SaveNetworkThen ==
  /\ op = "save"
  /\ promise.getNetwork.state = "resolved"
  /\ "outerThen" \notin ran
  /\ ran' = ran \cup {"outerThen"}
  /\ etherScanUrl' = promise.getNetwork.value
  /\ log' = Append(log, Call("newCampaign", <<campaign.title>>))
  /\ \/ promise' = [promise EXCEPT !.chain = Pending, !.outerThen = Resolved(Undefined)]
     \/ \E e \in Errors : promise' = [promise EXCEPT !.outerThen = Rejected(e)]
  /\ UNCHANGED <<op, campaign, throws, txHash, createReq, patchReq, campaigns>>
  /\ UNCHANGED readVars /\ UNCHANGED subVars

\* Mutant of SaveTransactionHash: the record is serialised before txHash is assigned.
SaveTransactionHashStale(hash) ==
  /\ op = "save"
  /\ promise.chain.state = "pending"
  /\ "transactionHash" \notin ran
  /\ ran' = ran \cup {"transactionHash"}
  /\ txHash' = hash
  /\ createReq' = toFeathers(campaign, Str(txHash))
  /\ promise' = [promise EXCEPT !.create = Pending]
  /\ log' = Append(log, Call("create", <<Str(txHash)>>))
  /\ UNCHANGED <<op, campaign, throws, etherScanUrl, patchReq, campaigns>>
  /\ UNCHANGED readVars /\ UNCHANGED subVars

\* .once('transactionHash', hash => { ... create(...) ... })
SaveTransactionHash(hash) ==
  /\ op = "save"
  /\ promise.chain.state = "pending"
  /\ "transactionHash" \notin ran
  /\ ran' = ran \cup {"transactionHash"}
  /\ txHash' = hash
  /\ createReq' = toFeathers(campaign, hash)
  /\ promise' = [promise EXCEPT !.create = Pending]
  /\ log' = Append(log, Call("create", <<hash>>))
  /\ UNCHANGED <<op, campaign, throws, etherScanUrl, patchReq, campaigns>>
  /\ UNCHANGED readVars /\ UNCHANGED subVars

\* .then(id => afterCreate(`${etherScanUrl}tx/${txHash}`, id))
SaveCreateThen ==
  /\ op = "save"
  /\ promise.create.state = "resolved"
  /\ "createThen" \notin ran
  /\ ran' = ran \cup {"createThen"}
  /\ log' = Append(log, Call("afterCreate",
                             <<ExplorerLink(etherScanUrl, txHash), promise.create.value>>))
  /\ UNCHANGED <<op, campaign, throws, txHash, etherScanUrl, promise, createReq, patchReq, campaigns>>
  /\ UNCHANGED readVars /\ UNCHANGED subVars

\* .then(() => { afterMined(`${etherScanUrl}tx/${txHash}`); })
SaveChainThen ==
  /\ op = "save"
  /\ promise.chain.state = "resolved"
  /\ "chainThen" \notin ran
  /\ ran' = ran \cup {"chainThen"}
  /\ log' = Append(log, Call("afterMined", <<ExplorerLink(etherScanUrl, txHash)>>))
  /\ promise' = [promise EXCEPT !.chainThen = AfterCall("afterMined")]
  /\ UNCHANGED <<op, campaign, throws, txHash, etherScanUrl, createReq, patchReq, campaigns>>
  /\ UNCHANGED readVars /\ UNCHANGED subVars

\* .catch(err => { if (...) return; ErrorPopup(...) }) of the chain call
SaveChainCatch ==
  /\ op = "save"
  /\ Catches("chain", "chainThen")
  /\ "chainCatch" \notin ran
  /\ ran' = ran \cup {"chainCatch"}
  /\ LET err == CaughtBy("chain", "chainThen") IN
       log' = IF SuppressedError(txHash, err) THEN log
              ELSE Append(log, CallErr("ErrorPopup",
                                       <<SAVE_TITLE, ExplorerLink(etherScanUrl, txHash)>>, err))
  /\ UNCHANGED <<op, campaign, throws, txHash, etherScanUrl, promise, createReq, patchReq, campaigns>>
  /\ UNCHANGED readVars /\ UNCHANGED subVars

\* Mutant of SaveNetworkCatch: the chain call's promise is returned to the outer
\* chain, so that its failure reaches the outer handler as well.
SaveNetworkCatchAll ==
  /\ op = "save"
  /\ Catches("getNetwork", "outerThen") \/ Catches("chain", "chainThen")
  /\ "outerCatch" \notin ran
  /\ ran' = ran \cup {"outerCatch"}
  /\ log' = Append(log, CallErr("ErrorPopup",
                                <<SAVE_TITLE, ExplorerLink(etherScanUrl, txHash)>>,
                                IF Catches("getNetwork", "outerThen")
                                  THEN CaughtBy("getNetwork", "outerThen")
                                  ELSE CaughtBy("chain", "chainThen")))
  /\ UNCHANGED <<op, campaign, throws, txHash, etherScanUrl, promise, createReq, patchReq, campaigns>>
  /\ UNCHANGED readVars /\ UNCHANGED subVars

\* .catch(err => { ErrorPopup(...) }) of getNetwork().then(...)
SaveNetworkCatch ==
  /\ op = "save"
  /\ Catches("getNetwork", "outerThen")
  /\ "outerCatch" \notin ran
  /\ ran' = ran \cup {"outerCatch"}
  /\ log' = Append(log, CallErr("ErrorPopup",
                                <<SAVE_TITLE, ExplorerLink(etherScanUrl, txHash)>>,
                                CaughtBy("getNetwork", "outerThen")))
  /\ UNCHANGED <<op, campaign, throws, txHash, etherScanUrl, promise, createReq, patchReq, campaigns>>
  /\ UNCHANGED readVars /\ UNCHANGED subVars

\* cancel(campaign, from, afterCreate, afterMined)
Cancel(c, t) ==
  /\ op = "idle"
  /\ op' = "cancel"
  /\ campaign' = c
  /\ throws' = [throws EXCEPT !.afterMined = t]
  /\ promise' = [promise EXCEPT !.getNetwork = Pending, !.getWeb3 = Pending, !.all = Pending]
  /\ log' = log \o <<Call("getNetwork", <<>>), Call("getWeb3", <<>>)>>
  /\ UNCHANGED <<txHash, etherScanUrl, ran, createReq, patchReq, campaigns>>
  /\ UNCHANGED readVars /\ UNCHANGED subVars

\* Promise.all([getNetwork(), getWeb3()]).then(([network, web3]) => { ... })
CancelAllThen ==
  /\ op = "cancel"
  /\ promise.all.state = "resolved"
  /\ "outerThen" \notin ran
  /\ ran' = ran \cup {"outerThen"}
  /\ \/ \* new LPPCampaign(web3, campaign.pluginAddress) throws
        /\ \E e \in Errors : promise' = [promise EXCEPT !.outerThen = Rejected(e)]
        /\ UNCHANGED <<etherScanUrl, log>>
     \/ \* cancelCampaign({ from }) throws
        /\ \E e \in Errors : promise' = [promise EXCEPT !.outerThen = Rejected(e)]
        /\ etherScanUrl' = promise.all.value
        /\ log' = Append(log, Call("cancelCampaign", <<>>))
     \/ /\ promise' = [promise EXCEPT !.chain = Pending, !.outerThen = Resolved(Undefined)]
        /\ etherScanUrl' = promise.all.value
        /\ log' = Append(log, Call("cancelCampaign", <<>>))
  /\ UNCHANGED <<op, campaign, throws, txHash, createReq, patchReq, campaigns>>
  /\ UNCHANGED readVars /\ UNCHANGED subVars

\* .once('transactionHash', hash => { ... patch(...).then(afterCreate(...)).catch(...) })
\* The argument of .then is evaluated when the handler runs: afterCreate is called
\* right after the patch is issued, and .then receives what it returned.
CancelTransactionHash(hash) ==
  /\ op = "cancel"
  /\ promise.chain.state = "pending"
  /\ "transactionHash" \notin ran
  /\ ran' = ran \cup {"transactionHash"}
  /\ txHash' = hash
  /\ patchReq' = [id |-> campaign.id, data |-> [status |-> CANCELED, mined |-> FALSE]]
  /\ promise' = [promise EXCEPT !.patch = Pending]
  /\ log' = log \o <<Call("patch", <<campaign.id>>),
                     Call("afterCreate", <<ExplorerLink(etherScanUrl, hash)>>)>>
  /\ UNCHANGED <<op, campaign, throws, etherScanUrl, createReq, campaigns>>
  /\ UNCHANGED readVars /\ UNCHANGED subVars

\* .catch(err => { ErrorPopup('Something went wrong with updating campaign', err); })
CancelPatchCatch ==
  /\ op = "cancel"
  /\ promise.patch.state = "rejected"
  /\ "patchCatch" \notin ran
  /\ ran' = ran \cup {"patchCatch"}
  /\ log' = Append(log, CallErr("ErrorPopup", <<PATCH_TITLE>>, promise.patch.err))
  /\ UNCHANGED <<op, campaign, throws, txHash, etherScanUrl, promise, createReq, patchReq, campaigns>>
  /\ UNCHANGED readVars /\ UNCHANGED subVars

\* .then(() => afterMined(`${etherScanUrl}tx/${txHash}`))
CancelChainThen ==
  /\ op = "cancel"
  /\ promise.chain.state = "resolved"
  /\ "chainThen" \notin ran
  /\ ran' = ran \cup {"chainThen"}
  /\ log' = Append(log, Call("afterMined", <<ExplorerLink(etherScanUrl, txHash)>>))
  /\ promise' = [promise EXCEPT !.chainThen = AfterCall("afterMined")]
  /\ UNCHANGED <<op, campaign, throws, txHash, etherScanUrl, createReq, patchReq, campaigns>>
  /\ UNCHANGED readVars /\ UNCHANGED subVars

\* .catch(err => { if (...) return; ErrorPopup(...) }) of the chain call
CancelChainCatch ==
  /\ op = "cancel"
  /\ Catches("chain", "chainThen")
  /\ "chainCatch" \notin ran
  /\ ran' = ran \cup {"chainCatch"}
  /\ LET err == CaughtBy("chain", "chainThen") IN
       log' = IF SuppressedError(txHash, err) THEN log
              ELSE Append(log, CallErr("ErrorPopup",
                                       <<CANCEL_TITLE, ExplorerLink(etherScanUrl, txHash)>>, err))
  /\ UNCHANGED <<op, campaign, throws, txHash, etherScanUrl, promise, createReq, patchReq, campaigns>>
  /\ UNCHANGED readVars /\ UNCHANGED subVars

\* .catch(err => { ErrorPopup(...) }) of Promise.all(...).then(...)
CancelAllCatch ==
  /\ op = "cancel"
  /\ Catches("all", "outerThen")
  /\ "outerCatch" \notin ran
  /\ ran' = ran \cup {"outerCatch"}
  /\ log' = Append(log, CallErr("ErrorPopup",
                                <<CANCEL_TITLE, ExplorerLink(etherScanUrl, txHash)>>,
                                CaughtBy("all", "outerThen")))
  /\ UNCHANGED <<op, campaign, throws, txHash, etherScanUrl, promise, createReq, patchReq, campaigns>>
  /\ UNCHANGED readVars /\ UNCHANGED subVars

-----------------------------------------------------------------------------
(* The collaborators: network accessor, chain client, store *)

\* Promise.all: rejected by the first rejection, resolved once both have resolved
\* (with the network's explorer base URL, the one element the service reads).
AllOf(p) ==
  IF p.all.state # "pending" THEN p.all
  ELSE IF p.getNetwork.state = "rejected" THEN Rejected(p.getNetwork.err)
  ELSE IF p.getWeb3.state = "rejected" THEN Rejected(p.getWeb3.err)
  ELSE IF p.getNetwork.state = "resolved" /\ p.getWeb3.state = "resolved"
         THEN Resolved(p.getNetwork.value)
  ELSE p.all
WithAll(p) == [p EXCEPT !.all = AllOf(p)]

\* getNetwork() settles: { lppCampaignFactory, etherscan } or a failure.
GetNetworkSettle ==
  /\ promise.getNetwork.state = "pending"
  /\ \/ \E url \in Etherscans : promise' = WithAll([promise EXCEPT !.getNetwork = Resolved(url)])
     \/ \E e \in Errors : promise' = WithAll([promise EXCEPT !.getNetwork = Rejected(e)])
  /\ UNCHANGED <<op, campaign, throws, txHash, etherScanUrl, ran, createReq, patchReq, campaigns, log>>
  /\ UNCHANGED readVars /\ UNCHANGED subVars

\* getWeb3() settles.
GetWeb3Settle ==
  /\ promise.getWeb3.state = "pending"
  /\ \/ promise' = WithAll([promise EXCEPT !.getWeb3 = Resolved("web3")])
     \/ \E e \in Errors : promise' = WithAll([promise EXCEPT !.getWeb3 = Rejected(e)])
  /\ UNCHANGED <<op, campaign, throws, txHash, etherScanUrl, ran, createReq, patchReq, campaigns, log>>
  /\ UNCHANGED readVars /\ UNCHANGED subVars

\* The chain call settles: mined (only after its hash was emitted) or rejected.
ChainSettle ==
  /\ promise.chain.state = "pending"
  /\ \/ /\ "transactionHash" \in ran
        /\ promise' = [promise EXCEPT !.chain = Resolved("receipt")]
     \/ \E e \in Errors : promise' = [promise EXCEPT !.chain = Rejected(e)]
  /\ UNCHANGED <<op, campaign, throws, txHash, etherScanUrl, ran, createReq, patchReq, campaigns, log>>
  /\ UNCHANGED readVars /\ UNCHANGED subVars

\* The store's create settles: the record is stored under a fresh id, or it fails.
StoreCreateSettle ==
  /\ promise.create.state = "pending"
  /\ \/ \E id \in CampaignIds \ StoredIds :
          /\ campaigns' = campaigns \cup {Created(id, createReq)}
          /\ promise' = [promise EXCEPT !.create = Resolved(id)]
     \/ /\ \E e \in Errors : promise' = [promise EXCEPT !.create = Rejected(e)]
        /\ UNCHANGED campaigns
  /\ UNCHANGED <<op, campaign, throws, txHash, etherScanUrl, ran, createReq, patchReq, log>>
  /\ UNCHANGED readVars /\ UNCHANGED subVars

\* The store's patch settles: the record is patched, or it fails.
StorePatchSettle ==
  /\ promise.patch.state = "pending"
  /\ \/ /\ patchReq.id \in StoredIds
        /\ campaigns' = Patched(patchReq.id, patchReq.data)
        /\ promise' = [promise EXCEPT !.patch = Resolved(patchReq.id)]
     \/ /\ \E e \in Errors : promise' = [promise EXCEPT !.patch = Rejected(e)]
        /\ UNCHANGED campaigns
  /\ UNCHANGED <<op, campaign, throws, txHash, etherScanUrl, ran, createReq, patchReq, log>>
  /\ UNCHANGED readVars /\ UNCHANGED subVars

-----------------------------------------------------------------------------
(* One call of save or cancel *)

Record(id, projectId, status, createdAt) ==
  [_id |-> id, title |-> "T", projectId |-> projectId, status |-> status,
   createdAt |-> createdAt, txHash |-> "0xH0", mined |-> TRUE]

InitCommon ==
  /\ op = "idle"
  /\ campaign = [id |-> Undefined, title |-> "T"]
  /\ throws = [afterMined |-> NoThrow, onSuccess |-> NoThrow]
  /\ txHash = Undefined
  /\ etherScanUrl = Undefined
  /\ promise = [n \in PromiseNames |-> Unsettled]
  /\ ran = {}
  /\ createReq = [title |-> "", txHash |-> Undefined]
  /\ patchReq = NoReq
  /\ args = [id |-> Undefined, query |-> NoQuery]
  /\ resp = [data |-> <<>>, total |-> 0]
  /\ outcome = <<>>
  /\ subscription = "none"
  /\ pending = 0
  /\ emissions = <<>>
  /\ delivered = 0
  /\ changes = 0
  /\ log = <<>>

InitialCampaigns == {Record("c1", 1, ACTIVE, 1), Record("c2", 0, PENDING, 2)}

Init ==
  /\ InitCommon
  /\ campaigns = InitialCampaigns
  /\ donations = {}

Next ==
  \/ \E c \in CampaignArgs, t \in ThrowChoices : Save(c, t)
  \/ SavePatchThen
  \/ SaveNetworkThen
  \/ \E h \in Hashes : SaveTransactionHash(h)
  \/ SaveCreateThen
  \/ SaveChainThen
  \/ SaveChainCatch
  \/ SaveNetworkCatch
  \/ \E c \in {a \in CampaignArgs : Truthy(a.id)}, t \in ThrowChoices : Cancel(c, t)
  \/ CancelAllThen
  \/ \E h \in Hashes : CancelTransactionHash(h)
  \/ CancelPatchCatch
  \/ CancelChainThen
  \/ CancelChainCatch
  \/ CancelAllCatch
  \/ GetNetworkSettle
  \/ GetWeb3Settle
  \/ ChainSettle
  \/ StoreCreateSettle
  \/ StorePatchSettle

Spec == Init /\ [][Next]_vars

-----------------------------------------------------------------------------
(* get and getCampaigns *)

DefaultLimit == 100
MaxProjectId == 1
MaxTime == 2

\* resp.data[i]: undefined past the end of the array.
UndefinedRecord ==
  [_id |-> Undefined, title |-> Undefined, projectId |-> Undefined, status |-> Undefined,
   createdAt |-> Undefined, txHash |-> Undefined, mined |-> Undefined]
At(data, i) == IF i + 1 \in DOMAIN data THEN data[i + 1] ELSE UndefinedRecord

\* What new Campaign(undefined) throws, when it throws.
ConstructorError == [message |-> <<"Cannot", "read", "property", "of", "undefined">>]

\* new Campaign(record): the domain object of a raw record.
NewCampaign(rec) ==
  [id |-> rec._id, title |-> rec.title, projectId |-> rec.projectId, status |-> rec.status,
   createdAt |-> rec.createdAt]

\* resp.data.map(c => new Campaign(c))
Campaigns(data) == [i \in DOMAIN data |-> NewCampaign(data[i])]

Outcome(kind, data, total, err) == [kind |-> kind, data |-> data, total |-> total, err |-> err]
Outcomes(kind) == SelectSeq(outcome, LAMBDA o : o.kind = kind)

\* Mutant of GetQuery: the id is not part of the query.
GetQueryAll(id) ==
  [filters |-> [f \in {} |-> Eq(id)], sort |-> NoSort, limit |-> NoLimit, skip |-> 0]

\* { query: { _id: id } }
GetQuery(id) ==
  [filters |-> [_id |-> Eq(id)], sort |-> NoSort, limit |-> NoLimit, skip |-> 0]

\* Mutant of CampaignsQuery: the status filter is missing.
CampaignsQueryAnyStatus(limit, skip) ==
  [filters |-> [projectId |-> Gt(0)], sort |-> DESC, limit |-> limit, skip |-> skip]

\* { query: { projectId: { $gt: 0 }, status: Campaign.ACTIVE, $limit, $skip,
\*            $sort: { createdAt: -1 } } }
CampaignsQuery(limit, skip) ==
  [filters |-> [projectId |-> Gt(0), status |-> Eq(ACTIVE)],
   sort |-> DESC, limit |-> limit, skip |-> skip]

\* get(id)
Get(id) ==
  /\ op = "idle"
  /\ op' = "get"
  /\ args' = [id |-> id, query |-> GetQuery(id)]
  /\ promise' = [promise EXCEPT !.find = Pending]
  /\ log' = Append(log, Call("find", <<"campaigns">>))
  /\ UNCHANGED <<campaign, throws, txHash, etherScanUrl, ran, createReq, patchReq, campaigns>>
  /\ UNCHANGED <<resp, outcome>> /\ UNCHANGED subVars

\* .then(resp => { resolve(new Campaign(resp.data[0])); })
\* With no record found resp.data[0] is undefined, and what the constructor makes of
\* it is not settled by the service: it returns a Campaign, or it throws, and then
\* resolve is never reached and the failure goes to the .catch.
GetFindThen ==
  /\ op = "get"
  /\ promise.find.state = "resolved"
  /\ "findThen" \notin ran
  /\ ran' = ran \cup {"findThen"}
  /\ \/ /\ outcome' = Append(outcome,
                             Outcome("resolve", <<NewCampaign(At(resp.data, 0))>>, 0, NoError))
        /\ promise' = [promise EXCEPT !.findThen = Resolved(Undefined)]
     \/ /\ resp.data = <<>>
        /\ outcome' = outcome
        /\ promise' = [promise EXCEPT !.findThen = Rejected(ConstructorError)]
  /\ UNCHANGED <<op, campaign, throws, txHash, etherScanUrl, createReq, patchReq, campaigns, log>>
  /\ UNCHANGED <<args, resp>> /\ UNCHANGED subVars

\* .catch(reject)
GetFindCatch ==
  /\ op = "get"
  /\ Catches("find", "findThen")
  /\ "findCatch" \notin ran
  /\ ran' = ran \cup {"findCatch"}
  /\ outcome' = Append(outcome, Outcome("reject", <<>>, 0, CaughtBy("find", "findThen")))
  /\ UNCHANGED <<op, campaign, throws, txHash, etherScanUrl, promise, createReq, patchReq, campaigns, log>>
  /\ UNCHANGED <<args, resp>> /\ UNCHANGED subVars

\* getCampaigns($limit = 100, $skip = 0, onSuccess, onError)
GetCampaigns(limit, skip, t) ==
  /\ op = "idle"
  /\ op' = "getCampaigns"
  /\ throws' = [throws EXCEPT !.onSuccess = t]
  /\ args' = [id |-> Undefined, query |-> CampaignsQuery(limit, skip)]
  /\ promise' = [promise EXCEPT !.find = Pending]
  /\ log' = Append(log, Call("find", <<"campaigns">>))
  /\ UNCHANGED <<campaign, txHash, etherScanUrl, ran, createReq, patchReq, campaigns>>
  /\ UNCHANGED <<resp, outcome>> /\ UNCHANGED subVars

\* .then(resp => { onSuccess(resp.data.map(c => new Campaign(c)), resp.total); })
GetCampaignsThen ==
  /\ op = "getCampaigns"
  /\ promise.find.state = "resolved"
  /\ "findThen" \notin ran
  /\ ran' = ran \cup {"findThen"}
  /\ outcome' = Append(outcome, Outcome("onSuccess", Campaigns(resp.data), resp.total, NoError))
  /\ promise' = [promise EXCEPT !.findThen = AfterCall("onSuccess")]
  /\ UNCHANGED <<op, campaign, throws, txHash, etherScanUrl, createReq, patchReq, campaigns, log>>
  /\ UNCHANGED <<args, resp>> /\ UNCHANGED subVars

\* .catch(onError)
GetCampaignsCatch ==
  /\ op = "getCampaigns"
  /\ Catches("find", "findThen")
  /\ "findCatch" \notin ran
  /\ ran' = ran \cup {"findCatch"}
  /\ outcome' = Append(outcome, Outcome("onError", <<>>, 0, CaughtBy("find", "findThen")))
  /\ UNCHANGED <<op, campaign, throws, txHash, etherScanUrl, promise, createReq, patchReq, campaigns, log>>
  /\ UNCHANGED <<args, resp>> /\ UNCHANGED subVars

\* The store's find on 'campaigns' settles: a response to the query, or a failure.
StoreFindSettle ==
  /\ promise.find.state = "pending"
  /\ \/ \E r \in Responses(campaigns, args.query) :
          /\ resp' = r
          /\ promise' = [promise EXCEPT !.find = Resolved(Undefined)]
     \/ /\ \E e \in StoreErrors : promise' = [promise EXCEPT !.find = Rejected(e)]
        /\ UNCHANGED resp
  /\ UNCHANGED <<op, campaign, throws, txHash, etherScanUrl, ran, createReq, patchReq, campaigns, log>>
  /\ UNCHANGED <<args, outcome>> /\ UNCHANGED subVars

\* Store contents: any campaigns under distinct ids.
Attributes == (0..MaxProjectId) \X Statuses \X (1..MaxTime)
Stores ==
  UNION {{{Record(id, f[id][1], f[id][2], f[id][3]) : id \in I} : f \in [I -> Attributes]} :
           I \in SUBSET CampaignIds}

Limits == {1, 2, DefaultLimit}
Skips == {0, 1}

InitRead ==
  /\ InitCommon
  /\ campaigns \in Stores
  /\ donations = {}

NextRead ==
  \/ \E id \in CampaignIds : Get(id)
  \/ GetFindThen
  \/ GetFindCatch
  \/ \E l \in Limits, k \in Skips, t \in {NoThrow, AccountError} : GetCampaigns(l, k, t)
  \/ GetCampaignsThen
  \/ GetCampaignsCatch
  \/ StoreFindSettle

SpecRead == InitRead /\ [][NextRead]_vars

-----------------------------------------------------------------------------
(* subscribeDonations *)

MaxChanges == 2

DonationIds == {"d1", "d2", "d3"}

Donation(id, campaignId, isReturn, createdAt) ==
  [_id |-> id, campaignId |-> campaignId, isReturn |-> isReturn, createdAt |-> createdAt]

\* new Donation(record): the domain object of a raw record.
NewDonation(rec) ==
  [id |-> rec._id, campaignId |-> rec.campaignId, isReturn |-> rec.isReturn,
   createdAt |-> rec.createdAt]

\* Mutant of DonationsQuery: the isReturn filter is missing.
DonationsQueryWithReturns(id) ==
  [filters |-> [campaignId |-> Eq(id)], sort |-> DESC, limit |-> NoLimit, skip |-> 0]

\* paramsForServer({ query: { campaignId: id, isReturn: false, $sort: { createdAt: -1 } },
\*                   schema: 'includeTypeAndGiverDetails' })
DonationsQuery(id) ==
  [filters |-> [campaignId |-> Eq(id), isReturn |-> Eq(FALSE)],
   sort |-> DESC, limit |-> NoLimit, skip |-> 0]

\* resp.data.map(d => new Donation(d))
Donations(data) == [i \in DOMAIN data |-> NewDonation(data[i])]

Emission(r, e) == [data |-> r.data, total |-> r.total, err |-> e]

\* subscribeDonations(id, onSuccess, onError): the subscription opens and the
\* server owes the subscriber the first listing.
SubscribeDonations(id) ==
  /\ op = "idle"
  /\ op' = "subscribeDonations"
  /\ args' = [id |-> id, query |-> DonationsQuery(id)]
  /\ subscription' = "open"
  /\ pending' = 1
  /\ log' = Append(log, Call("watch.find.subscribe", <<"donations">>))
  /\ UNCHANGED <<resp, outcome, donations, emissions, delivered, changes, campaigns>>
  /\ UNCHANGED mutVars

\* resp => onSuccess(resp.data.map(d => new Donation(d)))
DonationsNext ==
  /\ op = "subscribeDonations"
  /\ subscription = "open"
  /\ delivered < Len(emissions)
  /\ emissions[delivered + 1].err = NoError
  /\ delivered' = delivered + 1
  /\ outcome' = Append(outcome, Outcome("onSuccess",
                                        Donations(emissions[delivered + 1].data), 0, NoError))
  /\ UNCHANGED <<op, args, resp, donations, subscription, pending, emissions, changes, campaigns, log>>
  /\ UNCHANGED mutVars

\* onError: the stream fails and ends.
DonationsError ==
  /\ op = "subscribeDonations"
  /\ subscription = "open"
  /\ delivered < Len(emissions)
  /\ emissions[delivered + 1].err # NoError
  /\ delivered' = delivered + 1
  /\ outcome' = Append(outcome, Outcome("onError", <<>>, 0, emissions[delivered + 1].err))
  /\ subscription' = "closed"
  /\ UNCHANGED <<op, args, resp, donations, pending, emissions, changes, campaigns, log>>
  /\ UNCHANGED mutVars

\* The caller unsubscribes the returned handle.
Unsubscribe ==
  /\ subscription = "open"
  /\ subscription' = "closed"
  /\ UNCHANGED <<op, args, resp, outcome, donations, pending, emissions, delivered, changes, campaigns, log>>
  /\ UNCHANGED mutVars

\* listStrategy 'always': for each store event the server lists the query again
\* and pushes the listing, or the failure of listing it.
ServerPush ==
  /\ op = "subscribeDonations"
  /\ subscription = "open"
  /\ pending > 0
  /\ pending' = pending - 1
  /\ \/ \E r \in Responses(donations, args.query) : emissions' = Append(emissions, Emission(r, NoError))
     \/ emissions' = Append(emissions, Emission([data |-> <<>>, total |-> 0], ListingError))
  /\ UNCHANGED <<op, args, resp, outcome, donations, subscription, delivered, changes, campaigns, log>>
  /\ UNCHANGED mutVars

DonationTime == Max({0} \cup {d.createdAt : d \in donations}) + 1

\* The donations collection changes: a donation is created, patched or removed.
StoreChange(next) ==
  /\ op = "subscribeDonations"
  /\ changes < MaxChanges
  /\ changes' = changes + 1
  /\ donations' = next
  /\ pending' = pending + 1
  /\ UNCHANGED <<op, args, resp, outcome, subscription, emissions, delivered, campaigns, log>>
  /\ UNCHANGED mutVars

DonationCreated ==
  \E id \in DonationIds \ {d._id : d \in donations}, c \in {"c1", "c2"}, ret \in BOOLEAN :
    StoreChange(donations \cup {Donation(id, c, ret, DonationTime)})

DonationPatched ==
  \E d \in donations :
    StoreChange((donations \ {d}) \cup {[d EXCEPT !.isReturn = ~d.isReturn]})

DonationRemoved ==
  \E d \in donations : StoreChange(donations \ {d})

DonationStores ==
  UNION {{{Donation(id, f[id][1], f[id][2], 1) : id \in I} : f \in [I -> {"c1", "c2"} \X BOOLEAN]} :
           I \in SUBSET {"d1", "d2"}}

InitSub ==
  /\ InitCommon
  /\ campaigns = {}
  /\ donations \in DonationStores

NextSub ==
  \/ \E id \in {"c1", "c2"} : SubscribeDonations(id)
  \/ DonationsNext
  \/ DonationsError
  \/ Unsubscribe
  \/ ServerPush
  \/ DonationCreated
  \/ DonationPatched
  \/ DonationRemoved

SpecSub == InitSub /\ [][NextSub]_vars

-----------------------------------------------------------------------------
(* Properties of save and cancel (specification Spec) *)

IsSaveCreate == op = "save" /\ ~Truthy(campaign.id)
IsSaveUpdate == op = "save" /\ Truthy(campaign.id)

\* The call has nothing left to do: every promise settled, every callback ran.
Done == ~ENABLED Next

\* Reports of the chain-call and resolution failure handlers (the patch failure of
\* cancel is reported under its own, non-fatal title).
FatalPopups ==
  SelectSeq(log, LAMBDA e : e.fn = "ErrorPopup" /\ e.args[1] \in {SAVE_TITLE, CANCEL_TITLE})

HashSeen == Truthy(txHash)
NetworkFailed == promise.getNetwork.state = "rejected"
FactoryThrew == promise.outerThen.state = "rejected"
ChainRejected == promise.chain.state = "rejected"
UnknownTransaction == Includes(promise.chain.err.message, UNKNOWN_TRANSACTION)

\* C1: save without an id, factory call emits a hash and is mined, store create
\* succeeds: afterCreate is invoked exactly once, with the explorer link (explorer
\* base URL of the network, then the observed hash) and the new store id, and before
\* afterMined is invoked.
C1_AfterCreateBeforeAfterMined ==
  (IsSaveCreate /\ "chainThen" \in ran /\ "createThen" \in ran) =>
    /\ Count("afterCreate") = 1
    /\ Calls("afterCreate")[1].args =
         <<ExplorerLink(promise.getNetwork.value, txHash), promise.create.value>>
    /\ promise.getNetwork.value \in Etherscans
    /\ Index("afterCreate") < Index("afterMined")

\* C2: cancel: whenever afterCreate has been invoked, the patch of the record to
\* Canceled / mined=false has completed successfully (it is neither pending nor
\* failed).
C2_PatchAppliedBeforeAfterCreate ==
  (op = "cancel" /\ Count("afterCreate") > 0) =>
    /\ promise.patch.state = "resolved"
    /\ Stored(campaign.id).status = CANCELED
    /\ Stored(campaign.id).mined = FALSE

\* C3: save (create branch) and cancel: once the chain call has rejected, after a
\* hash was observed, with a message containing "unknown transaction", the fatal
\* error report is never issued and afterMined is never invoked; the afterCreate
\* calls already made stay in the log.
C3_UnknownTransactionIgnored ==
  (op \in {"save", "cancel"} /\ ChainRejected /\ HashSeen /\ UnknownTransaction) =>
    /\ FatalPopups = <<>>
    /\ Count("afterMined") = 0
    /\ op = "cancel" => Count("afterCreate") = 1
    /\ (op = "save" /\ "createThen" \in ran) => Count("afterCreate") = 1

C3_Witness ==
  /\ op = "cancel"
  /\ ChainRejected /\ HashSeen /\ UnknownTransaction
  /\ promise.chain.err.message # UNKNOWN_TRANSACTION
  /\ "chainCatch" \in ran
  /\ Count("afterCreate") = 1

\* C4: save with an id: no network resolution, no factory call, no store create; the
\* one store operation is a patch of that id; afterCreate is never invoked;
\* afterMined is invoked only after the patch succeeded, with no arguments, at most
\* once, and once when the call is done; never when the patch failed.
C4_UpdateOnlyPatches ==
  IsSaveUpdate =>
    /\ Count("getNetwork") = 0 /\ Count("getWeb3") = 0
    /\ Count("newCampaign") = 0 /\ Count("cancelCampaign") = 0
    /\ Count("create") = 0
    /\ StoredIds = {c._id : c \in InitialCampaigns}
    /\ Count("patch") = 1 /\ Calls("patch")[1].args = <<campaign.id>>
    /\ Count("afterCreate") = 0
    /\ Count("ErrorPopup") = 0
    /\ Count("afterMined") <= 1
    /\ \A i \in 1..Len(log) : log[i].fn = "afterMined" => log[i].args = <<>>
    /\ Count("afterMined") = 1 => promise.patch.state = "resolved"
    /\ (Done /\ promise.patch.state = "resolved") => Count("afterMined") = 1

C4_Witness ==
  /\ IsSaveUpdate
  /\ Count("afterMined") = 1
  /\ Stored(campaign.id).title = campaign.title
  /\ campaign.title # "T"

\* C5: save without an id: when network resolution fails, the factory call throws,
\* or the chain call rejects before a hash or with a message without "unknown
\* transaction", there is at most one fatal report, and exactly one (carrying the
\* failure) when the call is done; the network is resolved once and the factory
\* called at most once; afterMined is never invoked.
C5_OtherFailuresReportedOnce ==
  (IsSaveCreate /\ (NetworkFailed \/ FactoryThrew
                     \/ (ChainRejected /\ ~(HashSeen /\ UnknownTransaction)))) =>
    /\ Len(FatalPopups) <= 1
    /\ Count("getNetwork") = 1
    /\ Count("newCampaign") <= 1
    /\ Count("afterMined") = 0
    /\ Done =>
         /\ Len(FatalPopups) = 1
         /\ FatalPopups[1].err =
              (IF NetworkFailed THEN promise.getNetwork.err
               ELSE IF FactoryThrew THEN promise.outerThen.err ELSE promise.chain.err)

C5_Witness ==
  /\ IsSaveCreate
  /\ ChainRejected /\ ~HashSeen /\ UnknownTransaction
  /\ Done
  /\ Len(FatalPopups) = 1

\* C9: save without an id: the store create is issued at most once, only once a hash
\* was observed and with that hash; at most one record is added to the store and it
\* carries that hash; when network resolution fails or the chain call fails before a
\* hash, nothing is created and afterCreate is never invoked; a created record stays
\* in the store, unpatched, whatever the chain call does afterwards.
C9_CreateOnlyAfterHash ==
  IsSaveCreate =>
    LET new == campaigns \ InitialCampaigns IN
    /\ Count("create") <= 1
    /\ Count("create") = 1 =>
         /\ HashSeen
         /\ Calls("create")[1].args = <<txHash>>
         /\ createReq.txHash = txHash
    /\ Cardinality(new) <= 1
    /\ \A c \in new : c.txHash = txHash /\ promise.create.state = "resolved"
    /\ (NetworkFailed \/ FactoryThrew \/ (ChainRejected /\ ~HashSeen)) =>
         /\ new = {}
         /\ Count("create") = 0
         /\ Count("afterCreate") = 0
    /\ promise.create.state = "resolved" =>
         /\ \E c \in new : c._id = promise.create.value /\ c.status = PENDING
         /\ InitialCampaigns \subseteq campaigns
         /\ Count("patch") = 0

C9_Witness ==
  /\ IsSaveCreate
  /\ promise.create.state = "resolved"
  /\ ChainRejected
  /\ "chainCatch" \in ran
  /\ FatalPopups # <<>>

\* C10: one call of save (create branch) or cancel whose afterMined does not throw:
\* afterMined is invoked at most once, a fatal report is issued at most once, never
\* both, and the chain-call failure handler and the resolution failure handler never
\* both run.
C10_OneTerminalOutcome ==
  ((IsSaveCreate \/ op = "cancel") /\ throws.afterMined = NoThrow) =>
    /\ Count("afterMined") <= 1
    /\ Len(FatalPopups) <= 1
    /\ ~(Count("afterMined") > 0 /\ FatalPopups # <<>>)
    /\ ~({"chainCatch", "outerCatch"} \subseteq ran)

C10_Witness ==
  /\ op = "cancel"
  /\ throws.afterMined = NoThrow
  /\ Count("afterMined") = 1
  /\ "patchCatch" \in ran
  /\ Done

-----------------------------------------------------------------------------
(* Properties of get and getCampaigns (specification SpecRead) *)

DoneRead == ~ENABLED NextRead

FindResolved == promise.find.state = "resolved"
FindRejected == promise.find.state = "rejected"

Qualifies(c) == c.projectId > 0 /\ c.status = ACTIVE
NewestFirst(data) == \A i, j \in DOMAIN data : i < j => data[i].createdAt >= data[j].createdAt
NoRepeats(data) == \A i, j \in DOMAIN data : i # j => data[i].id # data[j].id

\* What onSuccess receives whenever it is called: qualifying campaigns of the store
\* only, newest first, at most $limit of them, with the number of qualifying
\* campaigns in the store as the total.
DeliveredCampaigns ==
  \A i \in DOMAIN outcome :
    outcome[i].kind = "onSuccess" =>
      /\ \A k \in DOMAIN outcome[i].data :
           /\ Qualifies(outcome[i].data[k])
           /\ \E c \in campaigns : outcome[i].data[k] = NewCampaign(c)
      /\ NewestFirst(outcome[i].data)
      /\ NoRepeats(outcome[i].data)
      /\ Len(outcome[i].data) <= args.query.limit
      /\ outcome[i].total = Cardinality({c \in campaigns : Qualifies(c)})

FetchRejectedToOnError ==
  FindRejected =>
    /\ Len(Outcomes("onSuccess")) = 0
    /\ Len(Outcomes("onError")) <= 1
    /\ \A i \in DOMAIN outcome : outcome[i].err = promise.find.err
    /\ DoneRead => Len(Outcomes("onError")) = 1

\* C6 as stated: getCampaigns: when the fetch succeeds onSuccess is called exactly
\* once and onError not at all, with qualifying campaigns only, newest first, and
\* the qualifying total; when the fetch rejects onError is called with the failure
\* and onSuccess is not.
C6_OnErrorOnlyOnRejectedFetch ==
  op = "getCampaigns" =>
    /\ DeliveredCampaigns
    /\ FetchRejectedToOnError
    /\ FindResolved =>
         /\ Len(Outcomes("onSuccess")) <= 1
         /\ DoneRead => Len(Outcomes("onSuccess")) = 1
         /\ Len(Outcomes("onError")) = 0

\* C6 amended: as C6, except that after a successful fetch onError is not called
\* unless onSuccess throws, and then it is called once, with what onSuccess threw.
C6_GetCampaigns ==
  op = "getCampaigns" =>
    /\ DeliveredCampaigns
    /\ FetchRejectedToOnError
    /\ FindResolved =>
         /\ Len(Outcomes("onSuccess")) <= 1
         /\ DoneRead => Len(Outcomes("onSuccess")) = 1
         /\ throws.onSuccess = NoThrow => Len(Outcomes("onError")) = 0
         /\ Len(Outcomes("onError")) <= 1
         /\ \A i \in DOMAIN outcome :
              outcome[i].kind = "onError" =>
                /\ outcome[i].err = throws.onSuccess
                /\ i = 2 /\ outcome[1].kind = "onSuccess"
         /\ (DoneRead /\ throws.onSuccess # NoThrow) => Len(Outcomes("onError")) = 1

C6_Witness ==
  /\ op = "getCampaigns"
  /\ FindResolved
  /\ DoneRead
  /\ throws.onSuccess = NoThrow
  /\ Len(outcome) = 1
  /\ Len(outcome[1].data) = 2
  /\ outcome[1].total = 2
  /\ outcome[1].data[1].createdAt > outcome[1].data[2].createdAt
  /\ \E c \in campaigns : ~Qualifies(NewCampaign(c))

GetSettlesOnce ==
  /\ Len(outcome) <= 1
  /\ DoneRead => Len(outcome) = 1

GetFirstRecord ==
  (FindResolved /\ outcome # <<>> /\ resp.data # <<>>) =>
    /\ outcome[1].kind = "resolve"
    /\ outcome[1].data = <<NewCampaign(resp.data[1])>>
    /\ outcome[1].data[1].id = args.id

GetFailure ==
  (FindRejected /\ outcome # <<>>) =>
    /\ outcome[1].kind = "reject"
    /\ outcome[1].err = promise.find.err

\* C8 as stated: get(id) settles exactly once; with at least one record found it
\* resolves with the Campaign of the first record, whose id is the requested id;
\* when the find fails it rejects with that failure; with no record found it does
\* not reject but resolves with the Campaign of an undefined record.
C8_ZeroRecordsResolve ==
  op = "get" =>
    /\ GetSettlesOnce
    /\ GetFirstRecord
    /\ GetFailure
    /\ (FindResolved /\ outcome # <<>> /\ resp.data = <<>>) =>
         /\ outcome[1].kind = "resolve"
         /\ outcome[1].data[1].id = Undefined

\* C8 amended: as C8, except that with no record found get settles with what the
\* Campaign constructor makes of an undefined record: it resolves with that
\* Campaign, or rejects with what the constructor threw.
C8_GetSettlesOnce ==
  op = "get" =>
    /\ GetSettlesOnce
    /\ GetFirstRecord
    /\ GetFailure
    /\ (FindResolved /\ outcome # <<>> /\ resp.data = <<>>) =>
         /\ args.id \notin StoredIds
         /\ \/ outcome[1].kind = "resolve" /\ outcome[1].data[1].id = Undefined
            \/ outcome[1].kind = "reject" /\ outcome[1].err = ConstructorError

C8_Witness ==
  /\ op = "get"
  /\ FindResolved
  /\ Cardinality(campaigns) > 1
  /\ outcome # <<>>
  /\ outcome[1].kind = "resolve"
  /\ outcome[1].data[1].id = args.id

-----------------------------------------------------------------------------
(* Properties of subscribeDonations (specification SpecSub) *)

\* The campaign's donations that are not returned donations.
CurrentDonations == {d \in donations : d.campaignId = args.id /\ ~d.isReturn}
Range(s) == {s[i] : i \in DOMAIN s}

\* C7: subscribeDonations: the subscriber's callbacks are invoked once per emission
\* received, in order: onSuccess with the emission's listing as Donation objects,
\* onError with its failure; no delivered listing holds a returned donation or a
\* donation of another campaign; and once every store change has been pushed and
\* delivered to an open subscription, the last listing is exactly the campaign's
\* current non-returned donations, newest first.
C7_DonationsDelivered ==
  op = "subscribeDonations" =>
    /\ Len(outcome) = delivered
    /\ delivered <= Len(emissions)
    /\ \A i \in DOMAIN outcome :
         IF emissions[i].err = NoError
           THEN /\ outcome[i].kind = "onSuccess"
                /\ outcome[i].data = [k \in DOMAIN emissions[i].data |-> NewDonation(emissions[i].data[k])]
                /\ \A k \in DOMAIN outcome[i].data :
                     /\ ~outcome[i].data[k].isReturn
                     /\ outcome[i].data[k].campaignId = args.id
                /\ NewestFirst(outcome[i].data)
           ELSE /\ outcome[i].kind = "onError"
                /\ outcome[i].err = emissions[i].err
    /\ (subscription = "open" /\ pending = 0 /\ delivered = Len(emissions)) =>
         /\ delivered = changes + 1
         /\ Range(outcome[delivered].data) = {NewDonation(d) : d \in CurrentDonations}
         /\ Len(outcome[delivered].data) = Cardinality(CurrentDonations)

C7_Witness ==
  /\ op = "subscribeDonations"
  /\ subscription = "open"
  /\ pending = 0
  /\ delivered = Len(emissions)
  /\ delivered = 3
  /\ Len(outcome[1].data) = 2
  /\ Len(outcome[2].data) = 1
  /\ Len(outcome[3].data) = 1
  /\ \E d \in donations : d.isReturn /\ d.campaignId = args.id
  /\ \E d \in donations : d.campaignId # args.id

====
